---- MODULE Spec2Model ----
(***************************************************************************)
(* The read path of PuzzleFS: the chunked file reader (file_read), the     *)
(* FileReader over it, the path resolver (PuzzleFS::lookup) and the FUSE   *)
(* adapter (Fuse) with its read-only callback surface.                     *)
(***************************************************************************)
EXTENDS Integers, Sequences, FiniteSets, TLC

VARIABLES
    pfs,          \* Fuse.pfs: [rootfs, oci, verity_data]
    sender,       \* Fuse.sender: "Some" / "None"
    init_notify,  \* Fuse.init_notify: "None" / "UnnamedPipe" / "NamedPipe"
    pipe,         \* bytes written so far to the ready pipe
    call,         \* the callback (or library call) served last, with its arguments
    reply,        \* its reply
    reader,       \* FileReader: [offset, len]
    sink,         \* everything the FileReader has returned so far
    listing,      \* the client of a readdir pass: the directory, the offset to resume
                  \* at, the entries delivered, whether the pass has ended, ...
    notifier,     \* the thread init spawns for a named pipe: its position
    fifo,         \* the path given as the named pipe: what it is, whether a reader
                  \* has opened it
    channel,      \* the shutdown channel: is its receiver alive, the messages sent
    torn          \* the adapter value: "alive", "dropped" or "panicked" in its drop

vars == <<pfs, sender, init_notify, pipe, call, reply, reader, sink, listing, notifier, fifo,
          channel, torn>>

(***************************************************************************)
(* Bounds of the model.                                                    *)
(***************************************************************************)
MaxChunks == 3      \* chunks of the file inode
MaxFileLen == 4     \* bytes of the file inode
MaxPathLen == 5     \* bytes of a path handed to PuzzleFS::lookup
MaxKeyLen == 2      \* bytes of an xattr key
MaxXattrs == 2      \* xattrs of an inode
MaxCap == 5         \* capacity of a readdir reply buffer

Min(a, b) == IF a < b THEN a ELSE b

RECURSIVE SumLen(_)
SumLen(s) == IF s = <<>> THEN 0 ELSE Head(s) + SumLen(Tail(s))

RECURSIVE Flatten(_)
Flatten(ss) == IF ss = <<>> THEN <<>> ELSE Head(ss) \o Flatten(Tail(ss))

SeqsUpTo(S, n) == UNION {[1..k -> S] : k \in 0..n}

(***************************************************************************)
(* Results of the library calls: Ok(v) and Err(errno).  A panic (unwrap,   *)
(* expect, index out of bounds, arithmetic underflow) is the errno         *)
(* "panic": the callback aborts and sends no reply.                        *)
(***************************************************************************)
Ok(v) == [ok |-> TRUE, val |-> v]
Err(e) == [ok |-> FALSE, errno |-> e]

ReplyError(e) == [kind |-> "error", errno |-> e]
ReplyData(d) == [kind |-> "data", data |-> d]
ReplyPanic == [kind |-> "panic"]
ReplyNone == [kind |-> "none"]

\* reply.error(e.to_errno()); a panic unwinds past the reply.
ReplyErr(e) == IF e = "panic" THEN ReplyPanic ELSE ReplyError(e)

(***************************************************************************)
(* The image: inodes, chunks, blobs.                                       *)
(***************************************************************************)
NoAdditional == [present |-> FALSE, xattrs |-> <<>>, is_link |-> FALSE, symlink_target |-> <<>>]

FileMode(chunks) == [tag |-> "File", chunks |-> chunks, entries |-> <<>>]
DirMode(entries) == [tag |-> "Dir", chunks |-> <<>>, entries |-> entries]
OtherMode(tag) == [tag |-> tag, chunks |-> <<>>, entries |-> <<>>]

MkInode(ino, mode, additional) ==
    [ino |-> ino, mode |-> mode, permissions |-> 420, uid |-> 0, gid |-> 0,
     additional |-> additional]

\* RootfsReader::find_inode: the decoded inode, or not-found.
find_inode(p, ino) ==
    IF ino \in DOMAIN p.rootfs THEN Ok(p.rootfs[ino]) ELSE Err("ENOENT")

\* Inode::file_len: the sum of the chunk lengths of a File inode.
file_len(inode) ==
    IF inode.mode.tag = "File"
    THEN Ok(SumLen([i \in 1..Len(inode.mode.chunks) |-> inode.mode.chunks[i].len]))
    ELSE Err("ENOTDIR")

\* Image::fill_from_chunk: up to `want` bytes of the blob from in_blob_offset; with
\* verity data the blob is checked against its expected root before any byte is
\* returned.  oci.limit[blob] is the most bytes one request to the blob returns.
fill_from_chunk(oci, blob, in_blob_offset, want, verity_data) ==
    IF verity_data.present /\ oci.blobs[blob] # verity_data.roots[blob]
    THEN Err("EIO")
    ELSE LET avail == Len(oci.blobs[blob]) - in_blob_offset
             n == Min(Min(want, IF avail > 0 THEN avail ELSE 0), oci.limit[blob])
         IN  Ok(SubSeq(oci.blobs[blob], in_blob_offset + 1, in_blob_offset + n))

\* data[start .. start + n) := bytes
Splice(data, start, bytes) ==
    [k \in 1..Len(data) |->
        IF k > start /\ k <= start + Len(bytes) THEN bytes[k - start] ELSE data[k]]

\* A skip computed without regard to the cursor.
addl_offset_from_start(offset, file_offset) == offset

\* The bytes to skip inside the current chunk.
addl_offset_of(offset, file_offset) ==
    IF offset > file_offset THEN offset - file_offset ELSE 0

\* The chunk loop of file_read from chunk i on; st holds the loop's locals, the
\* blob requests issued so far and, for every iteration run, the locals it
\* computed and the cursors it left.
RECURSIVE file_read_loop(_, _, _, _, _, _)
file_read_loop(oci, chunks, i, offset, verity_data, st) ==
    IF i > Len(chunks) THEN st
    ELSE
    LET chunk == chunks[i]
        end == offset + Len(st.data)
    IN
    IF st.file_offset > end THEN st
    ELSE IF st.file_offset + chunk.len < offset
    THEN file_read_loop(oci, chunks, i + 1, offset, verity_data,
                        [st EXCEPT !.file_offset = @ + chunk.len,
                                   !.iters = Append(@,
                                       [chunk |-> i, fetched |-> FALSE, addl_offset |-> 0,
                                        left_in_buf |-> Len(st.data) - st.buf_offset,
                                        chunk_left |-> chunk.len, to_read |-> 0, n |-> 0,
                                        file_offset |-> st.file_offset + chunk.len,
                                        buf_offset |-> st.buf_offset])])
    ELSE
    LET addl_offset == addl_offset_of(offset, st.file_offset)
        left_in_buf == Len(st.data) - st.buf_offset
        to_read == Min(left_in_buf, chunk.len - addl_offset)
        start == st.buf_offset
        r == fill_from_chunk(oci, chunk.blob, addl_offset, to_read, verity_data)
        req == [chunk |-> i, blob |-> chunk.blob, off |-> addl_offset, len |-> to_read]
        iter == [chunk |-> i, fetched |-> TRUE, addl_offset |-> addl_offset,
                 left_in_buf |-> left_in_buf, chunk_left |-> chunk.len - addl_offset,
                 to_read |-> to_read, n |-> IF r.ok THEN Len(r.val) ELSE 0,
                 file_offset |-> st.file_offset + addl_offset
                                   + (IF r.ok THEN Len(r.val) ELSE 0),
                 buf_offset |-> st.buf_offset + (IF r.ok THEN Len(r.val) ELSE 0)]
    IN
    IF left_in_buf < 0 \/ chunk.len - addl_offset < 0
    THEN [st EXCEPT !.err = "panic", !.iters = Append(@, iter)]
    ELSE IF ~r.ok
    THEN [st EXCEPT !.err = r.errno, !.reqs = Append(@, req), !.iters = Append(@, iter)]
    ELSE file_read_loop(oci, chunks, i + 1, offset, verity_data,
            [st EXCEPT !.file_offset = @ + addl_offset + Len(r.val),
                       !.buf_offset = @ + Len(r.val),
                       !.data = Splice(@, start, r.val),
                       !.reqs = Append(@, req),
                       !.iters = Append(@, iter)])

\* file_read(oci, inode, offset, data, verity_data): the number of bytes placed in
\* data, the buffer afterwards, the blob requests issued and the iterations run.
file_read(oci, inode, offset, data, verity_data) ==
    IF inode.mode.tag # "File"
    THEN [ok |-> FALSE, errno |-> "ENOTDIR", reqs |-> <<>>, iters |-> <<>>]
    ELSE
    LET st == file_read_loop(oci, inode.mode.chunks, 1, offset, verity_data,
                [file_offset |-> 0, buf_offset |-> 0, data |-> data,
                 err |-> "none", reqs |-> <<>>, iters |-> <<>>])
    IN  IF st.err # "none"
        THEN [ok |-> FALSE, errno |-> st.err, reqs |-> st.reqs, iters |-> st.iters]
        ELSE [ok |-> TRUE, n |-> st.buf_offset, data |-> st.data, reqs |-> st.reqs,
              iters |-> st.iters]

Zeros(n) == [k \in 1..n |-> 0]

NoVerity == [present |-> FALSE, roots |-> <<>>]

\* A read that hands the blob store no verity data.
Fuse_read_unverified(p, ino, offset, size) ==
    LET i == find_inode(p, ino) IN
    IF ~i.ok THEN Err(i.errno)
    ELSE LET r == file_read(p.oci, i.val, offset, Zeros(size), NoVerity)
         IN  IF ~r.ok THEN Err(r.errno) ELSE Ok(SubSeq(r.data, 1, r.n))

\* Fuse::_read
Fuse_read(p, ino, offset, size) ==
    LET i == find_inode(p, ino) IN
    IF ~i.ok THEN Err(i.errno)
    ELSE LET r == file_read(p.oci, i.val, offset, Zeros(size), p.verity_data)
         IN  IF ~r.ok THEN Err(r.errno) ELSE Ok(SubSeq(r.data, 1, r.n))

\* Filesystem::read
ReadReply(p, ino, offset, size) ==
    IF offset < 0 THEN ReplyPanic
    ELSE LET r == Fuse_read(p, ino, offset, size)
         IN  IF r.ok THEN ReplyData(r.val) ELSE ReplyErr(r.errno)

(***************************************************************************)
(* Images for the read path: ino 1 is the root directory with one entry,   *)
(* ino 2 a file whose content is the bytes 1..L cut into chunks, one blob  *)
(* per chunk.  A blob may have been altered after the image was built; the *)
(* verity data, present iff the image was opened with an expected manifest *)
(* root, holds for each blob the content its digest commits to.            *)
(***************************************************************************)
Content(L) == [k \in 1..L |-> k]

Chunkings == {lens \in SeqsUpTo(0..MaxFileLen, MaxChunks) : SumLen(lens) <= MaxFileLen}

ChunkStart(lens, i) == SumLen(SubSeq(lens, 1, i - 1))

OriginalBlobs(lens) ==
    [i \in 1..Len(lens) |->
        SubSeq(Content(SumLen(lens)), ChunkStart(lens, i) + 1, ChunkStart(lens, i) + lens[i])]

\* one byte of blob t altered (t = 0: no blob altered)
AlteredBlobs(lens, t) ==
    [i \in 1..Len(lens) |->
        IF i = t THEN [OriginalBlobs(lens)[i] EXCEPT ![1] = @ + 100]
        ELSE OriginalBlobs(lens)[i]]

FullLimit(lens) == [i \in 1..Len(lens) |-> SumLen(lens)]

NameA == <<"a">>
NameB == <<"b">>

\* PuzzleFS::open: verity_data is Some iff a manifest root was given.
PuzzleFS_open(rootfs, blobs, limit, originals, manifest_verity) ==
    [rootfs |-> rootfs,
     oci |-> [blobs |-> blobs, limit |-> limit],
     verity_data |-> [present |-> manifest_verity,
                      roots |-> IF manifest_verity THEN originals ELSE <<>>]]

ReadRootfs(lens) ==
    (1 :> MkInode(1, DirMode(<<[name |-> NameA, ino |-> 2]>>), NoAdditional))
    @@ (2 :> MkInode(2, FileMode([i \in 1..Len(lens) |-> [blob |-> i, len |-> lens[i]]]),
                     NoAdditional))

ReadImage(lens, t, manifest_verity) ==
    PuzzleFS_open(ReadRootfs(lens), AlteredBlobs(lens, t), FullLimit(lens),
                  OriginalBlobs(lens), manifest_verity)

ReadImages ==
    {ReadImage(c[1], c[2], c[3]) :
        c \in {x \in Chunkings \X (0..MaxChunks) \X BOOLEAN :
                 x[2] = 0 \/ (x[2] <= Len(x[1]) /\ x[1][x[2]] > 0)}}

IdleReader == [offset |-> 0, len |-> 0]
IdleListing == [ino |-> 0, offset |-> 0, got |-> <<>>, done |-> FALSE, calls |-> 0,
                fits |-> TRUE, pass |-> 0, first |-> <<>>]
NoCall == [op |-> "none"]
IdleNotifier == [pc |-> "none"]
NoFifo == [kind |-> "none", reader |-> FALSE]
OpenChannel == [receiver |-> TRUE, sent |-> 0]

(***************************************************************************)
(* SpecRead: the adapter's read callback over every read image.            *)
(***************************************************************************)
ReadInos == 1..3
ReadOffsets == -1..(MaxFileLen + 1)
ReadSizes == 0..(MaxFileLen + 1)

read(ino, offset, size) ==
    /\ call' = [op |-> "read", ino |-> ino, offset |-> offset, size |-> size]
    /\ reply' = ReadReply(pfs, ino, offset, size)
    /\ UNCHANGED <<pfs, sender, init_notify, pipe, reader, sink, listing, notifier, fifo, channel, torn>>

\* The callback keeps no state between requests: one request per behaviour
\* reaches every pair of an image and a request.
InitRead ==
    /\ pfs \in ReadImages
    /\ sender = "None"
    /\ init_notify = "None"
    /\ pipe = <<>>
    /\ call = NoCall
    /\ reply = ReplyNone
    /\ reader = IdleReader
    /\ sink = <<>>
    /\ listing = IdleListing
    /\ notifier = IdleNotifier
    /\ fifo = NoFifo
    /\ channel = OpenChannel
    /\ torn = "alive"

NextRead == \E ino \in ReadInos, offset \in ReadOffsets, size \in ReadSizes :
                call = NoCall /\ read(ino, offset, size)

SpecRead == InitRead /\ [][NextRead]_vars

(***************************************************************************)
(* What a read is expected to return, stated on the file's content.        *)
(***************************************************************************)
FileIno == 2

ChunkLens(p) ==
    [i \in 1..Len(p.rootfs[FileIno].mode.chunks) |-> p.rootfs[FileIno].mode.chunks[i].len]

\* the file's bytes as the blob store holds them now
FileContent(p) ==
    Flatten([i \in 1..Len(ChunkLens(p)) |->
                SubSeq(p.oci.blobs[p.rootfs[FileIno].mode.chunks[i].blob], 1, ChunkLens(p)[i])])

AlteredSet(p) ==
    {i \in 1..Len(ChunkLens(p)) : p.oci.blobs[i] # OriginalBlobs(ChunkLens(p))[i]}

\* C[offset .. min(offset + size, len(C)))
Slice(C, offset, size) ==
    IF offset >= Len(C) THEN <<>>
    ELSE [k \in 1..(Min(offset + size, Len(C)) - offset) |-> C[offset + k]]

\* the byte range [offset, offset + size) overlaps chunk i
Crosses(lens, i, offset, size) ==
    /\ size > 0
    /\ offset < ChunkStart(lens, i) + lens[i]
    /\ offset + size > ChunkStart(lens, i)

FileReadCall == call.op = "read" /\ call.ino = FileIno /\ call.offset >= 0

\* C1: with every blob request answered in full, a read of the file at offset
\* with a buffer of size bytes returns exactly C[offset .. min(offset+size, len(C))):
\* size bytes when the range fits, len(C) - offset when it runs past the end, none
\* when offset >= len(C); whatever the chunking.
C1_ReadReturnsSlice ==
    (FileReadCall /\ (AlteredSet(pfs) = {} \/ ~pfs.verity_data.present)) =>
        LET C == FileContent(pfs)
            off == call.offset
            size == call.size
        IN  /\ reply.kind = "data"
            /\ reply.data = Slice(C, off, size)
            /\ Len(reply.data) = (IF off >= Len(C) THEN 0
                                  ELSE IF off + size > Len(C) THEN Len(C) - off
                                  ELSE size)
            /\ (AlteredSet(pfs) = {} => reply.data = Slice(Content(Len(C)), off, size))

\* a read that starts inside the first chunk, crosses into the next ones and
\* runs past the end of the file
C1_Witness ==
    /\ FileReadCall
    /\ Len(ChunkLens(pfs)) >= 3
    /\ ChunkLens(pfs)[1] = 2
    /\ ChunkLens(pfs)[2] > 0
    /\ ChunkLens(pfs)[3] > 0
    /\ AlteredSet(pfs) = {}
    /\ call.offset = 1
    /\ call.offset + call.size > Len(FileContent(pfs))
    /\ reply = ReplyData(SubSeq(Content(Len(FileContent(pfs))), 2, Len(FileContent(pfs))))

\* C3: with verity data, a read whose range crosses an altered blob is answered
\* with the integrity errno and no data; without verity data the same read
\* returns the altered bytes as they are.
C3_AlteredBlob ==
    (FileReadCall /\ \E i \in AlteredSet(pfs) :
                        Crosses(ChunkLens(pfs), i, call.offset, call.size)) =>
        IF pfs.verity_data.present
        THEN reply = ReplyError("EIO")
        ELSE /\ reply = ReplyData(Slice(FileContent(pfs), call.offset, call.size))
             /\ \A i \in AlteredSet(pfs) :
                    LET at == ChunkStart(ChunkLens(pfs), i) IN
                    (call.offset <= at /\ at < call.offset + call.size) =>
                        reply.data[at - call.offset + 1] = Content(at + 1)[at + 1] + 100

\* verity on, the second chunk's blob altered, the first intact and read first
C3_Witness ==
    /\ FileReadCall
    /\ pfs.verity_data.present
    /\ AlteredSet(pfs) = {2}
    /\ ChunkLens(pfs)[1] > 0
    /\ Crosses(ChunkLens(pfs), 1, call.offset, call.size)
    /\ Crosses(ChunkLens(pfs), 2, call.offset, call.size)
    /\ reply = ReplyError("EIO")

\* the blob requests the read callback's file_read issues for the call served
RequestsOf(p, c) ==
    file_read(p.oci, p.rootfs[FileIno], c.offset, Zeros(c.size), p.verity_data).reqs

\* the chunks that overlap [offset, offset + size), in chunk order
Covered(lens, offset, size) ==
    LET F[i \in 0..Len(lens)] ==
            IF i = 0 THEN <<>>
            ELSE IF lens[i] > 0 /\ Crosses(lens, i, offset, size)
                 THEN Append(F[i - 1], i) ELSE F[i - 1]
    IN  F[Len(lens)]

\* C13: file_read issues its blob requests exactly to the chunks that overlap
\* the requested range, one per covered chunk, in chunk order: none for a
\* zero-length read, none for a read at or past the end of the file, none to a
\* chunk that ends at or before offset or starts at or after offset + size.
C13_RequestsOnlyCovered ==
    FileReadCall =>
        LET reqs == RequestsOf(pfs, call)
            asked == [k \in 1..Len(reqs) |-> reqs[k].chunk]
            covered == Covered(ChunkLens(pfs), call.offset, call.size)
        IN  /\ Len(asked) <= Len(covered)
            /\ asked = SubSeq(covered, 1, Len(asked))
            /\ reply.kind = "data" => asked = covered

(***************************************************************************)
(* SpecShort: reads over images whose blob store may answer a request with *)
(* fewer bytes than asked: blob i hands out at most limit[i] bytes at a    *)
(* time, any number from none to the chunk's length.                       *)
(***************************************************************************)
ShortLimits(lens) ==
    {lim \in [1..Len(lens) -> 0..MaxFileLen] : \A i \in 1..Len(lens) : lim[i] <= lens[i]}

ShortImage(lens, lim) ==
    PuzzleFS_open(ReadRootfs(lens), OriginalBlobs(lens), lim, OriginalBlobs(lens), FALSE)

ShortImages ==
    UNION {{ShortImage(lens, lim) : lim \in ShortLimits(lens)} : lens \in Chunkings}

InitShort ==
    /\ pfs \in ShortImages
    /\ sender = "None"
    /\ init_notify = "None"
    /\ pipe = <<>>
    /\ call = NoCall
    /\ reply = ReplyNone
    /\ reader = IdleReader
    /\ sink = <<>>
    /\ listing = IdleListing
    /\ notifier = IdleNotifier
    /\ fifo = NoFifo
    /\ channel = OpenChannel
    /\ torn = "alive"

NextShort == \E offset \in 0..(MaxFileLen + 1), size \in ReadSizes :
                call = NoCall /\ read(FileIno, offset, size)

SpecShort == InitShort /\ [][NextShort]_vars

\* the blob store answered the request with fewer bytes than it was asked for
FellShort(p, req) ==
    Len(fill_from_chunk(p.oci, req.blob, req.off, req.len, p.verity_data).val) < req.len

\* C14: when a blob request inside file_read comes back short, the read is
\* answered without error with fewer bytes than requested, and the n bytes
\* returned are the file's bytes C[offset .. offset + n): nothing from a later
\* chunk is placed right after the point where the earlier chunk fell short.
C14_ShortReadIsSlice ==
    (FileReadCall /\ \E k \in 1..Len(RequestsOf(pfs, call)) :
                        FellShort(pfs, RequestsOf(pfs, call)[k])) =>
        /\ reply.kind = "data"
        /\ Len(reply.data) < call.size
        /\ reply.data = SubSeq(FileContent(pfs), call.offset + 1,
                               call.offset + Len(reply.data))

\* the iterations file_read's loop runs for the call served
ItersOf(p, c) ==
    file_read(p.oci, p.rootfs[FileIno], c.offset, Zeros(c.size), p.verity_data).iters

\* C15: in every iteration of file_read's chunk loop, whatever the chunk list,
\* the offset, the buffer size and the number n <= to_read of bytes each blob
\* request returns: buf_offset <= len(buffer); once a chunk has been read
\* file_offset <= offset + buf_offset <= offset + len(buffer); addl_offset <=
\* chunk.len; so len(buffer) - buf_offset and chunk.len - addl_offset are never
\* negative and buffer[buf_offset .. buf_offset + to_read) lies inside the buffer.
C15_CursorsInBounds ==
    FileReadCall =>
        /\ reply.kind = "data"
        /\ \A k \in 1..Len(ItersOf(pfs, call)) :
              LET it == ItersOf(pfs, call)[k]
                  start == it.buf_offset - it.n
              IN  /\ it.buf_offset <= call.size
                  /\ it.left_in_buf >= 0
                  /\ it.chunk_left >= 0
                  /\ it.addl_offset <= ChunkLens(pfs)[it.chunk]
                  /\ it.n <= it.to_read
                  /\ start >= 0 /\ start + it.to_read <= call.size
                  /\ it.fetched =>
                        /\ it.file_offset <= call.offset + it.buf_offset
                        /\ call.offset + it.buf_offset <= call.offset + call.size

\* a read that skips the first chunk, starts inside the second, gets fewer
\* bytes of it than asked and goes on to the third
C15_Witness ==
    /\ FileReadCall
    /\ reply.kind = "data"
    /\ Len(ItersOf(pfs, call)) = 3
    /\ ~ItersOf(pfs, call)[1].fetched
    /\ ItersOf(pfs, call)[2].fetched
    /\ ItersOf(pfs, call)[2].addl_offset > 0
    /\ ItersOf(pfs, call)[2].to_read > 0
    /\ ItersOf(pfs, call)[2].n < ItersOf(pfs, call)[2].to_read
    /\ ItersOf(pfs, call)[3].fetched
    /\ ItersOf(pfs, call)[3].n > 0


(***************************************************************************)
(* SpecReader: a FileReader over the file inode, read to the end with      *)
(* buffers of every size.                                                  *)
(***************************************************************************)
\* FileReader::new
FileReader_new(inode) ==
    LET len == file_len(inode) IN
    IF ~len.ok THEN Err(len.errno) ELSE Ok([offset |-> 0, len |-> len.val])

\* A read that forgets to advance the reader.
FileReader_read_stuck(p, rd, bufsize) ==
    LET to_read == Min(rd.len - rd.offset, bufsize) IN
    IF to_read = 0 THEN [reader |-> rd, res |-> Ok(<<>>)]
    ELSE LET r == file_read(p.oci, p.rootfs[FileIno], rd.offset, Zeros(to_read), NoVerity)
         IN  IF ~r.ok THEN [reader |-> rd, res |-> Err(r.errno)]
             ELSE [reader |-> rd, res |-> Ok(SubSeq(r.data, 1, r.n))]

\* <FileReader as io::Read>::read with a buffer of bufsize bytes: the reader
\* afterwards and the bytes returned (their count is the return value).
FileReader_read(p, rd, bufsize) ==
    LET to_read == Min(rd.len - rd.offset, bufsize) IN
    IF to_read = 0 THEN [reader |-> rd, res |-> Ok(<<>>)]
    ELSE LET r == file_read(p.oci, p.rootfs[FileIno], rd.offset, Zeros(to_read), NoVerity)
         IN  IF ~r.ok THEN [reader |-> rd, res |-> Err(r.errno)]
             ELSE [reader |-> [rd EXCEPT !.offset = @ + r.n],
                   res |-> Ok(SubSeq(r.data, 1, r.n))]

BufSizes == 0..(MaxFileLen + 1)

reader_read(bufsize) ==
    LET out == FileReader_read(pfs, reader, bufsize) IN
    /\ call' = [op |-> "FileReader::read", size |-> bufsize]
    /\ reader' = out.reader
    /\ reply' = IF out.res.ok THEN [kind |-> "read", n |-> Len(out.res.val), data |-> out.res.val]
                ELSE ReplyErr(out.res.errno)
    /\ sink' = IF out.res.ok THEN sink \o out.res.val ELSE sink
    /\ UNCHANGED <<pfs, sender, init_notify, pipe, listing, notifier, fifo, channel, torn>>

InitReader ==
    /\ pfs \in ReadImages
    /\ sender = "None"
    /\ init_notify = "None"
    /\ pipe = <<>>
    /\ call = NoCall
    /\ reply = ReplyNone
    /\ reader = FileReader_new(pfs.rootfs[FileIno]).val
    /\ sink = <<>>
    /\ listing = IdleListing
    /\ notifier = IdleNotifier
    /\ fifo = NoFifo
    /\ channel = OpenChannel
    /\ torn = "alive"

NextReader == \E bufsize \in BufSizes : reader_read(bufsize)

SpecReader == InitReader /\ [][NextReader]_vars

\* in every state: the offset is within the file, what has been returned so far
\* is C[0 .. offset), and a read into a non-empty buffer that returned 0 came
\* when everything had been returned
C2_SinkIsPrefix ==
    /\ reader.offset <= reader.len
    /\ reader.len = Len(FileContent(pfs))
    /\ sink = SubSeq(FileContent(pfs), 1, reader.offset)
    /\ call.op = "FileReader::read" =>
          /\ reply.kind = "read"
          /\ (call.size > 0 /\ reply.n = 0) => sink = FileContent(pfs)

\* in every step: the read returns the slice at the old offset, the offset
\* advances by its length, and by at least one byte before the end
C2_ReadAdvances ==
    LET bufsize == call'.size IN
        /\ reader'.offset >= reader.offset
        /\ reply'.kind = "read"
        /\ reply'.data = Slice(FileContent(pfs), reader.offset, bufsize)
        /\ reader'.offset = reader.offset + reply'.n
        /\ (bufsize > 0 /\ reader.offset < reader.len) => reply'.n > 0

\* C2: from a fresh FileReader every sequence of reads returns successive
\* contiguous slices of C; the offset never decreases nor exceeds len(C), a read
\* into a non-empty buffer returns 0 only at the end, and what was returned up to
\* then is exactly C.
C2_ReaderContiguous == []C2_SinkIsPrefix /\ [][C2_ReadAdvances]_vars

\* the whole of a three-chunk file has been copied in several reads and the
\* next read returned 0
C2_Witness ==
    /\ call.op = "FileReader::read"
    /\ call.size = 2
    /\ reply.kind = "read"
    /\ reply.n = 0
    /\ Len(ChunkLens(pfs)) >= 3
    /\ \A i \in 1..3 : ChunkLens(pfs)[i] > 0
    /\ sink = Content(Len(sink))
    /\ Len(sink) >= 3
    /\ reader.offset = reader.len

(***************************************************************************)
(* The path resolver.  A path is a byte string over PathBytes; components  *)
(* are cut as std::path::Path::components cuts a Unix path: a leading "/"  *)
(* is RootDir, repeated and trailing separators vanish, "." vanishes       *)
(* except as the first component of a relative path (CurDir), ".." is      *)
(* ParentDir and every other piece is Normal.                              *)
(***************************************************************************)
PathBytes == {"/", ".", "a", "b"}

\* the pieces between separators, empty pieces included
RECURSIVE Pieces(_, _)
Pieces(path, cur) ==
    IF path = <<>> THEN <<cur>>
    ELSE IF Head(path) = "/" THEN <<cur>> \o Pieces(Tail(path), <<>>)
    ELSE Pieces(Tail(path), Append(cur, Head(path)))

Select(seq, Keep(_)) ==
    LET RECURSIVE sel(_)
        sel(s) == IF s = <<>> THEN <<>>
                  ELSE IF Keep(Head(s)) THEN <<Head(s)>> \o sel(Tail(s))
                  ELSE sel(Tail(s))
    IN  sel(seq)

RootDir == [kind |-> "RootDir", name |-> <<>>]
CurDir == [kind |-> "CurDir", name |-> <<>>]
ParentDir == [kind |-> "ParentDir", name |-> <<>>]
Normal(name) == [kind |-> "Normal", name |-> name]

Components(path) ==
    LET has_root == path # <<>> /\ Head(path) = "/"
        pieces == Pieces(path, <<>>)
        cur_dir == ~has_root /\ Head(pieces) = <<".">>
        rest == Select(IF cur_dir THEN Tail(pieces) ELSE pieces,
                       LAMBDA x : x # <<>> /\ x # <<".">>)
        body == [k \in 1..Len(rest) |->
                    IF rest[k] = <<".", ".">> THEN ParentDir ELSE Normal(rest[k])]
    IN  (IF has_root THEN <<RootDir>> ELSE IF cur_dir THEN <<CurDir>> ELSE <<>>) \o body

LookupSome(inode) == [kind |-> "some", inode |-> inode]
LookupNull == [kind |-> "null"]

\* An entry matches when its name starts the component.
dir_find_prefix(entries, name) ==
    LET hits == {k \in 1..Len(entries) :
                    /\ Len(entries[k].name) <= Len(name)
                    /\ SubSeq(name, 1, Len(entries[k].name)) = entries[k].name}
    IN  IF hits = {} THEN 0 ELSE CHOOSE k \in hits : \A j \in hits : k <= j

\* dir_list.entries.into_iter().find(|e| e.name == p.as_bytes()): the index of the
\* first entry of that name, 0 when there is none.
dir_find(entries, name) ==
    LET hits == {k \in 1..Len(entries) : entries[k].name = name}
    IN  IF hits = {} THEN 0 ELSE CHOOSE k \in hits : \A j \in hits : k <= j

\* The walk of lookup over comps[i..] from the inode cur.
RECURSIVE lookup_walk_lenient(_, _, _, _)
lookup_walk_lenient(p, comps, i, cur) ==
    IF i > Len(comps) THEN LookupSome(cur)
    ELSE IF comps[i].kind = "Normal"
    THEN LET k == IF cur.mode.tag = "Dir" THEN dir_find(cur.mode.entries, comps[i].name)
                  ELSE 0
         IN  IF k = 0 THEN LookupNull
             ELSE LET next == find_inode(p, cur.mode.entries[k].ino)
                  IN  IF ~next.ok THEN ReplyErr(next.errno)
                      ELSE lookup_walk_lenient(p, comps, i + 1, next.val)
    ELSE lookup_walk_lenient(p, comps, i + 1, cur)

RECURSIVE lookup_walk(_, _, _, _)
lookup_walk(p, comps, i, cur) ==
    IF i > Len(comps) THEN LookupSome(cur)
    ELSE IF comps[i].kind = "Normal"
    THEN LET k == IF cur.mode.tag = "Dir" THEN dir_find(cur.mode.entries, comps[i].name)
                  ELSE 0
         IN  IF k = 0 THEN LookupNull
             ELSE LET next == find_inode(p, cur.mode.entries[k].ino)
                  IN  IF ~next.ok THEN ReplyErr(next.errno)
                      ELSE lookup_walk(p, comps, i + 1, next.val)
    ELSE ReplyError("EINVAL")

\* PuzzleFS::lookup
PuzzleFS_lookup(p, path) ==
    LET components == Components(path) IN
    IF components = <<>> THEN ReplyPanic       \* components[0]: index out of bounds
    ELSE IF components[1].kind # "RootDir" THEN ReplyError("EINVAL")
    ELSE LET cur == find_inode(p, 1)
         IN  IF ~cur.ok THEN ReplyErr(cur.errno)
             ELSE lookup_walk(p, components, 2, cur.val)

(***************************************************************************)
(* SpecLookup: PuzzleFS::lookup of every path over a family of images:     *)
(* ino 1 the root directory, ino 2 a directory, ino 3 a file, ino 4 a      *)
(* symlink; names are unique within a directory and every entry resolves.  *)
(***************************************************************************)
DirLists(inos) ==
    {<<>>}
    \cup {<<[name |-> n, ino |-> i]>> : n \in {NameA, NameB}, i \in inos}
    \cup {<<[name |-> NameA, ino |-> i], [name |-> NameB, ino |-> j]>> : i \in inos, j \in inos}
    \cup {<<[name |-> NameB, ino |-> i], [name |-> NameA, ino |-> j]>> : i \in inos, j \in inos}

LinkAdditional == [present |-> TRUE, xattrs |-> <<>>, is_link |-> TRUE, symlink_target |-> NameA]

TreeRootfs(root_list, sub_list) ==
    (1 :> MkInode(1, DirMode(root_list), NoAdditional))
    @@ (2 :> MkInode(2, DirMode(sub_list), NoAdditional))
    @@ (3 :> MkInode(3, FileMode(<<[blob |-> 1, len |-> 2]>>), NoAdditional))
    @@ (4 :> MkInode(4, OtherMode("Lnk"), LinkAdditional))

TreeImage(root_list, sub_list) ==
    PuzzleFS_open(TreeRootfs(root_list, sub_list), <<Content(2)>>, <<2>>, <<Content(2)>>, FALSE)

LookupImages ==
    {TreeImage(r, s) : r \in DirLists({2, 3}),
                       s \in {<<>>, <<[name |-> NameA, ino |-> 3]>>,
                              <<[name |-> NameB, ino |-> 4], [name |-> NameA, ino |-> 3]>>}}

Paths == SeqsUpTo(PathBytes, MaxPathLen)

lookup_path(path) ==
    /\ call = NoCall
    /\ call' = [op |-> "PuzzleFS::lookup", path |-> path]
    /\ reply' = PuzzleFS_lookup(pfs, path)
    /\ UNCHANGED <<pfs, sender, init_notify, pipe, reader, sink, listing, notifier, fifo, channel, torn>>

InitLookup ==
    /\ pfs \in LookupImages
    /\ sender = "None"
    /\ init_notify = "None"
    /\ pipe = <<>>
    /\ call = NoCall
    /\ reply = ReplyNone
    /\ reader = IdleReader
    /\ sink = <<>>
    /\ listing = IdleListing
    /\ notifier = IdleNotifier
    /\ fifo = NoFifo
    /\ channel = OpenChannel
    /\ torn = "alive"

NextLookup == \E path \in Paths : lookup_path(path)

SpecLookup == InitLookup /\ [][NextLookup]_vars

(***************************************************************************)
(* What the resolver is expected to answer, stated on the path's bytes.    *)
(***************************************************************************)
LookupCall == call.op = "PuzzleFS::lookup"

Rooted(path) == path # <<>> /\ path[1] = "/"

\* the names of "/n1/n2/.../nk", every ni a plain name
NamesOf(path) == IF Len(path) <= 1 THEN <<>> ELSE Pieces(Tail(path), <<>>)

PlainName(n) == n # <<>> /\ n # <<".">> /\ n # <<".", ".">>

PlainPath(path) ==
    /\ Rooted(path)
    /\ \A k \in 1..Len(NamesOf(path)) : PlainName(NamesOf(path)[k])

\* the entry of directory inode `ino` named n, as a set (names are unique)
Children(p, ino, n) ==
    IF p.rootfs[ino].mode.tag # "Dir" THEN {}
    ELSE {p.rootfs[ino].mode.entries[k].ino : k \in
            {j \in 1..Len(p.rootfs[ino].mode.entries) : p.rootfs[ino].mode.entries[j].name = n}}

\* the inode reached from ino by the names, 0 when a name has no entry or the
\* inode is not a directory while names remain
RECURSIVE Reach(_, _, _)
Reach(p, ino, names) ==
    IF names = <<>> THEN ino
    ELSE IF Children(p, ino, Head(names)) = {} THEN 0
    ELSE Reach(p, CHOOSE c \in Children(p, ino, Head(names)) : TRUE, Tail(names))

Expect(p, ino) == IF ino = 0 THEN LookupNull ELSE LookupSome(p.rootfs[ino])

\* C5: lookup("/") is the root inode; lookup of an absolute path of plain names
\* is the inode reached by following, directory by directory, the entry of exactly
\* that name; a missing entry, or a non-directory with names left, gives null.
C5_ResolverLaws ==
    LookupCall =>
        /\ call.path = <<"/">> => (reply.kind = "some" /\ reply.inode.ino = 1)
        /\ PlainPath(call.path) => reply = Expect(pfs, Reach(pfs, 1, NamesOf(call.path)))

\* "/a/b" resolved through the directory ino 2 to the file ino 3
C5_Witness ==
    /\ LookupCall
    /\ call.path = <<"/", "a", "/", "a">>
    /\ Reach(pfs, 1, <<NameA>>) = 2
    /\ reply.kind = "some"
    /\ reply.inode.ino = 3

\* C6 as claimed: a path that does not start with the root marker is answered EINVAL.
C6_NotRootedIsEinval ==
    (LookupCall /\ ~Rooted(call.path)) => reply = ReplyError("EINVAL")

\* the first ".." among the pieces of a rooted path, 0 when there is none
FirstParent(path) ==
    LET names == Select(NamesOf(path), LAMBDA x : x # <<>> /\ x # <<".">>)
        at == {k \in 1..Len(names) : names[k] = <<".", ".">>}
    IN  IF at = {} THEN 0 ELSE CHOOSE k \in at : \A j \in at : k <= j

NamesBefore(path) ==
    SubSeq(Select(NamesOf(path), LAMBDA x : x # <<>> /\ x # <<".">>), 1, FirstParent(path) - 1)

HasNonNormal(path) == Rooted(path) /\ FirstParent(path) > 0

\* C7 as claimed: an absolute path with a non-normal component is answered EINVAL
\* whether or not the components before it exist.
C7_NonNormalAlwaysEinval ==
    (LookupCall /\ HasNonNormal(call.path)) => reply = ReplyError("EINVAL")

\* C7 amended: an absolute path with a non-normal component is answered EINVAL when
\* every component before the first non-normal one resolves, and null when one of
\* them has no entry or is looked up in a non-directory.
C7_NonNormalAfterResolved ==
    (LookupCall /\ HasNonNormal(call.path)) =>
        IF Reach(pfs, 1, NamesBefore(call.path)) # 0
        THEN reply = ReplyError("EINVAL")
        ELSE reply = LookupNull

\* "/a/.." with "a" present: EINVAL
C7_Witness ==
    /\ LookupCall
    /\ call.path = <<"/", "a", "/", ".", ".">>
    /\ Reach(pfs, 1, <<NameA>>) = 3
    /\ reply = ReplyError("EINVAL")

(***************************************************************************)
(* The FUSE adapter: the helpers behind the read-path callbacks.           *)
(***************************************************************************)
\* mode_to_fuse_type
mode_to_fuse_type(inode) ==
    CASE inode.mode.tag = "File" -> Ok("RegularFile")
      [] inode.mode.tag = "Dir" -> Ok("Directory")
      [] inode.mode.tag = "Fifo" -> Ok("NamedPipe")
      [] inode.mode.tag = "Chr" -> Ok("CharDevice")
      [] inode.mode.tag = "Blk" -> Ok("BlockDevice")
      [] inode.mode.tag = "Lnk" -> Ok("Symlink")
      [] inode.mode.tag = "Sock" -> Ok("Socket")
      [] OTHER -> Err("EINVAL")

\* Inode::dir_entries: the entries of a directory inode
dir_entries(inode) ==
    IF inode.mode.tag = "Dir" THEN Ok(inode.mode.entries) ELSE Err("ENOTDIR")

\* Inode::dir_lookup: the ino of the entry of that name
dir_lookup(inode, name) ==
    LET entries == dir_entries(inode) IN
    IF ~entries.ok THEN Err(entries.errno)
    ELSE LET k == dir_find(entries.val, name)
         IN  IF k = 0 THEN Err("ENOENT") ELSE Ok(entries.val[k].ino)

\* Fuse::_getattr
Fuse_getattr(p, ino) ==
    LET ic == find_inode(p, ino) IN
    IF ~ic.ok THEN Err(ic.errno)
    ELSE LET kind == mode_to_fuse_type(ic.val)
             len == file_len(ic.val)
         IN  IF ~kind.ok THEN Err(kind.errno)
             ELSE Ok([ino |-> ic.val.ino,
                      size |-> IF len.ok THEN len.val ELSE 0,
                      blocks |-> 0, atime |-> 0, mtime |-> 0, ctime |-> 0, crtime |-> 0,
                      kind |-> kind.val,
                      perm |-> ic.val.permissions,
                      nlink |-> 0, uid |-> ic.val.uid, gid |-> ic.val.gid,
                      rdev |-> 0, blksize |-> 0, flags |-> 0])

\* Fuse::_lookup
Fuse_lookup(p, parent, name) ==
    LET dir == find_inode(p, parent) IN
    IF ~dir.ok THEN Err(dir.errno)
    ELSE LET ino == dir_lookup(dir.val, name)
         IN  IF ~ino.ok THEN Err(ino.errno) ELSE Fuse_getattr(p, ino.val)

\* Fuse::_readlink
Fuse_readlink(p, ino) ==
    LET inode == find_inode(p, ino) IN
    IF ~inode.ok THEN Err(inode.errno)
    ELSE LET kind == mode_to_fuse_type(inode.val)
         IN  IF ~kind.ok THEN Err(kind.errno)
             ELSE IF kind.val = "Symlink"
                     /\ inode.val.additional.present /\ inode.val.additional.is_link
             THEN Ok(inode.val.additional.symlink_target)
             ELSE Err("EINVAL")

\* Fuse::_getxattr
Fuse_getxattr(p, ino, name) ==
    LET inode == find_inode(p, ino) IN
    IF ~inode.ok THEN Err(inode.errno)
    ELSE LET xattrs == IF inode.val.additional.present THEN inode.val.additional.xattrs
                       ELSE <<>>
             hits == {k \in 1..Len(xattrs) : xattrs[k].key = name}
         IN  IF hits = {} THEN Err("ENODATA")
             ELSE Ok(xattrs[CHOOSE k \in hits : \A j \in hits : k <= j].val)

\* the size / data / ERANGE rule shared by getxattr and listxattr
XattrReply(r, size) ==
    IF ~r.ok THEN ReplyErr(r.errno)
    ELSE IF size = 0 THEN [kind |-> "size", size |-> Len(r.val)]
    ELSE IF Len(r.val) <= size THEN ReplyData(r.val)
    ELSE ReplyError("ERANGE")

NUL == 0

Range(seq) == {seq[k] : k \in 1..Len(seq)}

\* CString::new(key).expect(..).as_bytes_with_nul(): an interior NUL is refused and
\* the expect aborts the callback.
CStringWithNul(key) ==
    IF NUL \in Range(key) THEN Err("panic") ELSE Ok(Append(key, NUL))

\* Keys joined with a separator between them only.
RECURSIVE xattr_keys_joined(_)
xattr_keys_joined(xattrs) ==
    IF xattrs = <<>> THEN Ok(<<>>)
    ELSE LET head == CStringWithNul(xattrs[1].key)
             rest == xattr_keys_joined(Tail(xattrs))
         IN  IF ~head.ok THEN head
             ELSE IF ~rest.ok THEN rest
             ELSE IF Len(xattrs) = 1 THEN Ok(xattrs[1].key)
             ELSE Ok(head.val \o rest.val)

\* add.xattrs.iter().flat_map(|x| CString::new(x.key)...).collect()
RECURSIVE xattr_keys_with_nul(_)
xattr_keys_with_nul(xattrs) ==
    IF xattrs = <<>> THEN Ok(<<>>)
    ELSE LET head == CStringWithNul(xattrs[1].key)
             rest == xattr_keys_with_nul(Tail(xattrs))
         IN  IF ~head.ok THEN head
             ELSE IF ~rest.ok THEN rest
             ELSE Ok(head.val \o rest.val)

\* Fuse::_listxattr
Fuse_listxattr(p, ino) ==
    LET inode == find_inode(p, ino) IN
    IF ~inode.ok THEN Err(inode.errno)
    ELSE IF inode.val.additional.present
         THEN xattr_keys_with_nul(inode.val.additional.xattrs)
         ELSE Ok(<<>>)

(***************************************************************************)
(* open and opendir.  A flag value is the set of the bit positions set in  *)
(* the i32; KnownBits are the bits some OFlag constant names (Linux,       *)
(* x86_64), which is all that from_bits_truncate keeps.                    *)
(***************************************************************************)
O_WRONLY == {0}
O_RDWR == {1}
O_CREAT == {6}
O_NONBLOCK == {11}
O_DIRECTORY == {16}
O_NOFOLLOW == {17}
O_NOATIME == {18}
O_PATH == {21}
O_RDONLY == {}
SignBit == {31}

KnownBits == (0..1) \cup (6..14) \cup (16..22)

AllowedFlags ==
    O_RDONLY \cup O_PATH \cup O_NONBLOCK \cup O_DIRECTORY \cup O_NOFOLLOW \cup O_NOATIME

\* An open that accepts every flag value.
Fuse_open_any(flags_i) ==
    IF SignBit \subseteq flags_i THEN ReplyPanic
    ELSE [kind |-> "opened", fh |-> 0, flags |-> flags_i]

\* Fuse::_open
Fuse_open(flags_i) ==
    LET flags == flags_i \cap KnownBits IN       \* OFlag::from_bits_truncate
    IF ~(flags \subseteq AllowedFlags) THEN ReplyError("EROFS")
    ELSE IF SignBit \subseteq flags_i THEN ReplyPanic    \* i32 -> u32 try_into().unwrap()
    ELSE [kind |-> "opened", fh |-> 0, flags |-> flags_i]

(***************************************************************************)
(* readdir.  The reply buffer takes an entry when it still fits in the     *)
(* capacity the kernel asked for and reports full, without taking the      *)
(* entry, when it does not.                                                *)
(***************************************************************************)
EntrySize(name) == 1 + Len(name)

UsedBy(buf) == SumLen([k \in 1..Len(buf) |-> EntrySize(buf[k].name)])

\* ReplyDirectory::add
ReplyDirectory_add(buf, cap, ino, offset, kind, name) ==
    IF UsedBy(buf) + EntrySize(name) > cap
    THEN [full |-> TRUE, buf |-> buf]
    ELSE [full |-> FALSE,
          buf |-> Append(buf, [ino |-> ino, offset |-> offset, kind |-> kind, name |-> name])]

\* A loop that hands out the index of the entry, not the one after it.
RECURSIVE readdir_loop_same_offset(_, _, _, _, _)
readdir_loop_same_offset(p, entries, index, cap, buf) ==
    IF index >= Len(entries) THEN Ok(buf)
    ELSE LET ino == entries[index + 1].ino
             inode == find_inode(p, ino)
             kind == mode_to_fuse_type(inode.val)
             added == ReplyDirectory_add(buf, cap, ino, index, kind.val,
                                         entries[index + 1].name)
         IN  IF ~inode.ok THEN Err(inode.errno)
             ELSE IF ~kind.ok THEN Err(kind.errno)
             ELSE IF added.full THEN Ok(buf)
             ELSE readdir_loop_same_offset(p, entries, index + 1, cap, added.buf)

\* The loop of _readdir from the entry at `index` (0-based) on.
RECURSIVE readdir_loop(_, _, _, _, _)
readdir_loop(p, entries, index, cap, buf) ==
    IF index >= Len(entries) THEN Ok(buf)
    ELSE LET ino == entries[index + 1].ino
             inode == find_inode(p, ino)
             kind == mode_to_fuse_type(inode.val)
             added == ReplyDirectory_add(buf, cap, ino, index + 1, kind.val,
                                         entries[index + 1].name)
         IN  IF ~inode.ok THEN Err(inode.errno)
             ELSE IF ~kind.ok THEN Err(kind.errno)
             ELSE IF added.full THEN Ok(buf)
             ELSE readdir_loop(p, entries, index + 1, cap, added.buf)

\* Fuse::_readdir; a negative offset cast to usize skips every entry.
Fuse_readdir(p, ino, offset, cap) ==
    LET inode == find_inode(p, ino) IN
    IF ~inode.ok THEN Err(inode.errno)
    ELSE LET entries == dir_entries(inode.val)
         IN  IF ~entries.ok THEN Err(entries.errno)
             ELSE IF offset < 0 THEN Ok(<<>>)
             ELSE readdir_loop(p, entries.val, offset, cap, <<>>)

\* Filesystem::readdir
ReaddirReply(p, ino, offset, cap) ==
    LET r == Fuse_readdir(p, ino, offset, cap) IN
    IF r.ok THEN [kind |-> "dir", entries |-> r.val] ELSE ReplyErr(r.errno)

(***************************************************************************)
(* SpecOpen: open and opendir over flag values.  FlagBits are the bits     *)
(* tried: the access modes, O_CREAT, the six allowed flags, a bit no OFlag *)
(* names (0x20) and the sign bit of the i32.                               *)
(***************************************************************************)
NameAB == <<"a", "b">>

FuseRootfs ==
    (1 :> MkInode(1, DirMode(<<[name |-> NameA, ino |-> 2], [name |-> NameB, ino |-> 3],
                               [name |-> NameAB, ino |-> 4]>>), NoAdditional))
    @@ (2 :> MkInode(2, DirMode(<<[name |-> NameA, ino |-> 3]>>), NoAdditional))
    @@ (3 :> MkInode(3, FileMode(<<[blob |-> 1, len |-> 2], [blob |-> 2, len |-> 1]>>),
                     [present |-> TRUE,
                      xattrs |-> <<[key |-> <<1>>, val |-> <<7, 7>>], [key |-> <<1, 2>>, val |-> <<>>]>>,
                      is_link |-> FALSE, symlink_target |-> <<>>]))
    @@ (4 :> MkInode(4, OtherMode("Lnk"), LinkAdditional))

FuseImage ==
    PuzzleFS_open(FuseRootfs, OriginalBlobs(<<2, 1>>), FullLimit(<<2, 1>>),
                  OriginalBlobs(<<2, 1>>), FALSE)

FlagBits == {0, 1, 5, 6, 11, 16, 17, 18, 21, 31}
FlagValues == SUBSET FlagBits

open(ino, flags) ==
    /\ call' = [op |-> "open", ino |-> ino, flags |-> flags]
    /\ reply' = Fuse_open(flags)
    /\ UNCHANGED <<pfs, sender, init_notify, pipe, reader, sink, listing, notifier, fifo, channel, torn>>

opendir(ino, flags) ==
    /\ call' = [op |-> "opendir", ino |-> ino, flags |-> flags]
    /\ reply' = Fuse_open(flags)
    /\ UNCHANGED <<pfs, sender, init_notify, pipe, reader, sink, listing, notifier, fifo, channel, torn>>

InitOpen ==
    /\ pfs = FuseImage
    /\ sender = "None"
    /\ init_notify = "None"
    /\ pipe = <<>>
    /\ call = NoCall
    /\ reply = ReplyNone
    /\ reader = IdleReader
    /\ sink = <<>>
    /\ listing = IdleListing
    /\ notifier = IdleNotifier
    /\ fifo = NoFifo
    /\ channel = OpenChannel
    /\ torn = "alive"

NextOpen ==
    \/ \E ino \in {1, 3}, flags \in FlagValues : call = NoCall /\ open(ino, flags)
    \/ \E ino \in {1, 3}, flags \in FlagValues : call = NoCall /\ opendir(ino, flags)

SpecOpen == InitOpen /\ [][NextOpen]_vars

\* C10 as claimed: open and opendir succeed with file handle 0 and the flag value
\* echoed exactly when every bit set is one of RDONLY, PATH, NONBLOCK, DIRECTORY,
\* NOFOLLOW, NOATIME, and reply EROFS when any other bit is set.
C10_OpenDecidesOnFlags ==
    call.op \in {"open", "opendir"} =>
        IF call.flags \subseteq AllowedFlags
        THEN reply = [kind |-> "opened", fh |-> 0, flags |-> call.flags]
        ELSE reply = ReplyError("EROFS")

(***************************************************************************)
(* SpecXattr: listxattr over every stored sequence of xattrs with distinct *)
(* keys over the bytes 0x00 and 0x01, and over an inode without the        *)
(* additional record.                                                      *)
(***************************************************************************)
KeyBytes == {NUL, 1}
Keys == SeqsUpTo(KeyBytes, MaxKeyLen)

XattrLists ==
    {ks \in SeqsUpTo(Keys, MaxXattrs) : \A i, j \in 1..Len(ks) : i # j => ks[i] # ks[j]}

XattrRootfs(present, keys) ==
    (1 :> MkInode(1, DirMode(<<[name |-> NameA, ino |-> 2]>>), NoAdditional))
    @@ (2 :> MkInode(2, FileMode(<<>>),
                     [present |-> present,
                      xattrs |-> [k \in 1..Len(keys) |-> [key |-> keys[k], val |-> <<7>>]],
                      is_link |-> FALSE, symlink_target |-> <<>>]))

XattrImages ==
    {PuzzleFS_open(XattrRootfs(TRUE, keys), <<>>, <<>>, <<>>, FALSE) : keys \in XattrLists}
    \cup {PuzzleFS_open(XattrRootfs(FALSE, <<>>), <<>>, <<>>, <<>>, FALSE)}

XattrSizes == 0..(MaxXattrs * (MaxKeyLen + 1) + 1)

listxattr(ino, size) ==
    /\ call' = [op |-> "listxattr", ino |-> ino, size |-> size]
    /\ reply' = XattrReply(Fuse_listxattr(pfs, ino), size)
    /\ UNCHANGED <<pfs, sender, init_notify, pipe, reader, sink, listing, notifier, fifo, channel, torn>>

InitXattr ==
    /\ pfs \in XattrImages
    /\ sender = "None"
    /\ init_notify = "None"
    /\ pipe = <<>>
    /\ call = NoCall
    /\ reply = ReplyNone
    /\ reader = IdleReader
    /\ sink = <<>>
    /\ listing = IdleListing
    /\ notifier = IdleNotifier
    /\ fifo = NoFifo
    /\ channel = OpenChannel
    /\ torn = "alive"

NextXattr == \E ino \in 1..3, size \in XattrSizes : call = NoCall /\ listxattr(ino, size)

SpecXattr == InitXattr /\ [][NextXattr]_vars

StoredKeys(p, ino) ==
    [k \in 1..Len(p.rootfs[ino].additional.xattrs) |-> p.rootfs[ino].additional.xattrs[k].key]

\* the elements of bytes between the 0x00 bytes, the one after the last included
RECURSIVE SplitOnNul(_, _)
SplitOnNul(bytes, cur) ==
    IF bytes = <<>> THEN <<cur>>
    ELSE IF Head(bytes) = NUL THEN <<cur>> \o SplitOnNul(Tail(bytes), <<>>)
    ELSE SplitOnNul(Tail(bytes), Append(cur, Head(bytes)))

RECURSIVE Terminated(_)
Terminated(keys) ==
    IF keys = <<>> THEN <<>> ELSE Head(keys) \o <<NUL>> \o Terminated(Tail(keys))

\* a listxattr of a known inode with a size that is not 0 and holds the whole list
ListxattrCall ==
    /\ call.op = "listxattr"
    /\ call.ino \in DOMAIN pfs.rootfs
    /\ call.size > 0
    /\ call.size >= Len(Terminated(StoredKeys(pfs, call.ino)))

XattrFraming ==
    /\ reply = ReplyData(Terminated(StoredKeys(pfs, call.ino)))
    /\ SplitOnNul(reply.data, <<>>) = Append(StoredKeys(pfs, call.ino), <<>>)
    /\ StoredKeys(pfs, call.ino) = <<>> => reply.data = <<>>

\* C9 as claimed: for keys that are arbitrary byte strings the reply is the keys
\* in stored order, each followed by one 0x00, and splits back into the keys.
C9_FramingAnyKeys == ListxattrCall => XattrFraming

\* C9 amended: for keys without a 0x00 byte the reply is the keys in stored
\* order, each followed by one 0x00, and splitting it on 0x00 gives the keys
\* followed by one empty element; no xattrs give an empty reply.
C9_FramingNulFreeKeys ==
    (ListxattrCall /\ \A k \in 1..Len(StoredKeys(pfs, call.ino)) :
                         NUL \notin Range(StoredKeys(pfs, call.ino)[k])) => XattrFraming

\* two keys, the empty key among them, listed
C9_Witness ==
    /\ call.op = "listxattr"
    /\ call.ino = 2
    /\ StoredKeys(pfs, 2) = <<<<1, 1>>, <<>>>>
    /\ reply = ReplyData(<<1, 1, NUL, NUL>>)

(***************************************************************************)
(* SpecReaddir: a client lists the root directory twice.  Each pass starts *)
(* at offset 0 and resumes at the next_offset of the last entry delivered, *)
(* with a reply buffer of any capacity at each call, until a reply comes   *)
(* back empty.                                                             *)
(***************************************************************************)
ListedEntries == {[name |-> NameA, ino |-> 2], [name |-> NameB, ino |-> 3],
                  [name |-> NameAB, ino |-> 4]}

ListedDirs ==
    {d \in SeqsUpTo(ListedEntries, Cardinality(ListedEntries)) :
        \A i, j \in 1..Len(d) : i # j => d[i] # d[j]}

ReaddirImages == {TreeImage(d, <<[name |-> NameA, ino |-> 3]>>) : d \in ListedDirs}

Caps == 0..MaxCap

RootEntries(p) == p.rootfs[1].mode.entries

\* every entry of the directory fits alone in a buffer of that capacity
HoldsAnEntry(p, cap) ==
    \A k \in 1..Len(RootEntries(p)) : EntrySize(RootEntries(p)[k].name) <= cap

readdir_next(cap) ==
    LET r == ReaddirReply(pfs, listing.ino, listing.offset, cap) IN
    /\ ~listing.done
    /\ call' = [op |-> "readdir", ino |-> listing.ino, offset |-> listing.offset, cap |-> cap]
    /\ reply' = r
    /\ listing' =
         LET seen == [listing EXCEPT !.calls = @ + 1,
                                     !.fits = @ /\ HoldsAnEntry(pfs, cap)]
         IN  IF r.kind # "dir" \/ r.entries = <<>> THEN [seen EXCEPT !.done = TRUE]
             ELSE [seen EXCEPT !.got = @ \o r.entries,
                               !.offset = r.entries[Len(r.entries)].offset]
    /\ UNCHANGED <<pfs, sender, init_notify, pipe, reader, sink, notifier, fifo, channel, torn>>

\* the client rewinds and lists the directory again
readdir_rewind ==
    /\ listing.done
    /\ listing.pass = 1
    /\ listing' = [listing EXCEPT !.pass = 2, !.first = listing.got, !.got = <<>>,
                                  !.offset = 0, !.done = FALSE, !.calls = 0]
    /\ UNCHANGED <<pfs, sender, init_notify, pipe, reader, sink, call, reply, notifier,
                   fifo, channel, torn>>

InitReaddir ==
    /\ pfs \in ReaddirImages
    /\ sender = "None"
    /\ init_notify = "None"
    /\ pipe = <<>>
    /\ call = NoCall
    /\ reply = ReplyNone
    /\ reader = IdleReader
    /\ sink = <<>>
    /\ listing = [IdleListing EXCEPT !.ino = 1, !.pass = 1]
    /\ notifier = IdleNotifier
    /\ fifo = NoFifo
    /\ channel = OpenChannel
    /\ torn = "alive"

NextReaddir ==
    \/ \E cap \in Caps : readdir_next(cap)
    \/ readdir_rewind

SpecReaddir == InitReaddir /\ [][NextReaddir]_vars

KindOfTag(tag) ==
    CASE tag = "File" -> "RegularFile"
      [] tag = "Dir" -> "Directory"
      [] tag = "Lnk" -> "Symlink"
      [] OTHER -> "other"

\* the entry of index k (from 1) of the root directory as readdir must emit it
Emitted(p, k) ==
    [ino |-> RootEntries(p)[k].ino, offset |-> k,
     kind |-> KindOfTag(p.rootfs[RootEntries(p)[k].ino].mode.tag),
     name |-> RootEntries(p)[k].name]

Triples(es) == [k \in 1..Len(es) |-> <<es[k].name, es[k].ino, es[k].kind>>]

\* one reply: the entries from index offset on in stored order, each with
\* next_offset = index + 1, up to the end or to the first that does not fit
C8_OneReply ==
    call.op = "readdir" =>
        LET n == Len(reply.entries)
            E == RootEntries(pfs)
        IN  /\ reply.kind = "dir"
            /\ call.offset + n <= Len(E)
            /\ \A k \in 1..n : reply.entries[k] = Emitted(pfs, call.offset + k)
            /\ \/ call.offset + n = Len(E)
               \/ UsedBy(reply.entries) + EntrySize(E[call.offset + n + 1].name) > call.cap
            /\ (HoldsAnEntry(pfs, call.cap) /\ call.offset < Len(E)) => n > 0

\* a pass with buffers that each hold any one entry delivers every entry once, in
\* stored order, and the second pass delivers what the first did
C8_WholePass ==
    (listing.fits /\ listing.done) =>
        /\ listing.got = [k \in 1..Len(RootEntries(pfs)) |-> Emitted(pfs, k)]
        /\ reply.kind = "dir" /\ reply.entries = <<>>
        /\ listing.pass = 2 => Triples(listing.got) = Triples(listing.first)

\* C8: readdir emits the entries in stored order from index offset with
\* next_offset = index + 1 and stops when the buffer is full; a pass that resumes
\* at the last next_offset, with buffers that each hold any one entry of the
\* directory, delivers every entry exactly once in stored order and ends with an
\* empty reply; two passes deliver the same (name, ino, kind) sequence.
C8_ReaddirPass == C8_OneReply /\ C8_WholePass

\* the second pass over three entries has ended after at least three calls
C8_Witness ==
    /\ listing.pass = 2
    /\ listing.done
    /\ listing.fits
    /\ listing.calls >= 3
    /\ Len(listing.got) = 3
    /\ Len(listing.first) = 3

(***************************************************************************)
(* SpecFuse: the adapter serving any sequence of callbacks over one image. *)
(***************************************************************************)
\* a callback that replies and leaves the adapter as it is
Serve(c, r) ==
    /\ call' = c
    /\ reply' = r
    /\ UNCHANGED <<pfs, sender, init_notify, pipe, reader, sink, listing, notifier, fifo, channel, torn>>

ReplyOk == [kind |-> "ok"]

LookupReply(p, parent, name) ==
    LET r == Fuse_lookup(p, parent, name) IN
    IF r.ok THEN [kind |-> "entry", attr |-> r.val, ttl |-> "max", generation |-> 0]
    ELSE ReplyErr(r.errno)

GetattrReply(p, ino) ==
    LET r == Fuse_getattr(p, ino) IN
    IF r.ok THEN [kind |-> "attr", attr |-> r.val, ttl |-> "max"] ELSE ReplyErr(r.errno)

ReadlinkReply(p, ino) ==
    LET r == Fuse_readlink(p, ino) IN
    IF r.ok THEN ReplyData(r.val) ELSE ReplyErr(r.errno)

Inos == {1, 3, 9}
AllInos == {1, 2, 3, 4, 9}
NameZ == <<"z">>
EntryNames == {NameA, NameZ}
XattrNames == {<<1>>, <<1, 2>>, <<2>>}

\* An init that leaves the notifier in place.
init_keeps_notifier ==
    /\ call' = [op |-> "init"]
    /\ reply' = ReplyOk
    /\ init_notify' = init_notify
    /\ CASE init_notify = "UnnamedPipe" ->
               /\ pipe' \in {Append(pipe, "s"), pipe}
               /\ notifier' = notifier
         [] init_notify = "NamedPipe" ->
               /\ pipe' = pipe
               /\ notifier' = [pc |-> "metadata"]
         [] OTHER -> UNCHANGED <<pipe, notifier>>
    /\ UNCHANGED <<pfs, sender, reader, sink, listing, fifo, channel, torn>>

\* Filesystem::init: takes the notifier out of the adapter; an unnamed pipe is
\* written here (write_all succeeds or fails, the error is only logged), a named
\* pipe is left to a spawned thread; Ok(()) in every case.
init ==
    /\ call' = [op |-> "init"]
    /\ reply' = ReplyOk
    /\ init_notify' = "None"
    /\ CASE init_notify = "UnnamedPipe" ->
               /\ pipe' \in {Append(pipe, "s"), pipe}
               /\ notifier' = notifier
         [] init_notify = "NamedPipe" ->
               /\ pipe' = pipe
               /\ notifier' = [pc |-> "metadata"]
         [] OTHER -> UNCHANGED <<pipe, notifier>>
    /\ UNCHANGED <<pfs, sender, reader, sink, listing, fifo, channel, torn>>

\* The spawned thread, fs::metadata and is_fifo: it gives up (with a warning)
\* when the path cannot be examined or is not a FIFO.
notifier_metadata ==
    /\ notifier.pc = "metadata"
    /\ notifier' = [pc |-> IF fifo.kind = "fifo" THEN "open" ELSE "done"]
    /\ UNCHANGED <<pfs, sender, init_notify, pipe, call, reply, reader, sink, listing, fifo,
                   channel, torn>>

\* The spawned thread, OpenOptions::open for writing: returns once a reader has
\* the FIFO open, or fails.
notifier_open ==
    /\ notifier.pc = "open"
    /\ \/ fifo.reader /\ notifier' = [pc |-> "write"]
       \/ notifier' = [pc |-> "done"]
    /\ UNCHANGED <<pfs, sender, init_notify, pipe, call, reply, reader, sink, listing, fifo,
                   channel, torn>>

\* The spawned thread, write_all(b"s"): succeeds or fails, then the thread ends.
notifier_write ==
    /\ notifier.pc = "write"
    /\ pipe' \in {Append(pipe, "s"), pipe}
    /\ notifier' = [pc |-> "done"]
    /\ UNCHANGED <<pfs, sender, init_notify, call, reply, reader, sink, listing, fifo,
                   channel, torn>>

\* impl Drop for Fuse: with a sender, send(()) and unwrap the result; the send
\* fails when the receiver is gone.
drop ==
    /\ torn = "alive"
    /\ call' = [op |-> "drop"]
    /\ reply' = ReplyNone
    /\ IF sender = "Some"
       THEN IF channel.receiver
            THEN /\ channel' = [channel EXCEPT !.sent = @ + 1]
                 /\ torn' = "dropped"
            ELSE /\ channel' = channel
                 /\ torn' = "panicked"
       ELSE /\ channel' = channel
            /\ torn' = "dropped"
    /\ UNCHANGED <<pfs, sender, init_notify, pipe, reader, sink, listing, notifier, fifo>>

destroy == Serve([op |-> "destroy"], ReplyNone)
forget(ino) == Serve([op |-> "forget", ino |-> ino], ReplyNone)

\* An unlink that takes the entry out of the directory.
unlink_removes(parent, name) ==
    /\ call' = [op |-> "unlink", parent |-> parent, name |-> name]
    /\ reply' = ReplyError("EROFS")
    /\ pfs' = IF parent \in DOMAIN pfs.rootfs /\ pfs.rootfs[parent].mode.tag = "Dir"
              THEN [pfs EXCEPT !.rootfs[parent].mode.entries =
                                    Select(@, LAMBDA e : e.name # name)]
              ELSE pfs
    /\ UNCHANGED <<sender, init_notify, pipe, reader, sink, listing, notifier, fifo, channel, torn>>

setattr(ino) == Serve([op |-> "setattr", ino |-> ino], ReplyError("EROFS"))
mknod(parent, name) ==
    Serve([op |-> "mknod", parent |-> parent, name |-> name], ReplyError("EROFS"))
mkdir(parent, name) ==
    Serve([op |-> "mkdir", parent |-> parent, name |-> name], ReplyError("EROFS"))
unlink(parent, name) ==
    Serve([op |-> "unlink", parent |-> parent, name |-> name], ReplyError("EROFS"))
rmdir(parent, name) ==
    Serve([op |-> "rmdir", parent |-> parent, name |-> name], ReplyError("EROFS"))
symlink(parent, name) ==
    Serve([op |-> "symlink", parent |-> parent, name |-> name], ReplyError("EROFS"))
rename(parent, name, newparent, newname) ==
    Serve([op |-> "rename", parent |-> parent, name |-> name, newparent |-> newparent,
           newname |-> newname], ReplyError("EROFS"))
link(ino, newparent, newname) ==
    Serve([op |-> "link", ino |-> ino, newparent |-> newparent, newname |-> newname],
          ReplyError("EROFS"))
write(ino, offset, data) ==
    Serve([op |-> "write", ino |-> ino, offset |-> offset, data |-> data], ReplyError("EROFS"))
flush(ino) == Serve([op |-> "flush", ino |-> ino], ReplyError("ENOSYS"))
fsync(ino) == Serve([op |-> "fsync", ino |-> ino], ReplyError("EROFS"))
fsyncdir(ino) == Serve([op |-> "fsyncdir", ino |-> ino], ReplyError("EROFS"))
setxattr(ino, name, value) ==
    Serve([op |-> "setxattr", ino |-> ino, name |-> name, value |-> value], ReplyError("EROFS"))
removexattr(ino, name) ==
    Serve([op |-> "removexattr", ino |-> ino, name |-> name], ReplyError("EROFS"))
create(parent, name) ==
    Serve([op |-> "create", parent |-> parent, name |-> name], ReplyError("EROFS"))
getlk(ino) == Serve([op |-> "getlk", ino |-> ino], ReplyError("EROFS"))
setlk(ino) == Serve([op |-> "setlk", ino |-> ino], ReplyError("EROFS"))

lookup(parent, name) ==
    Serve([op |-> "lookup", parent |-> parent, name |-> name], LookupReply(pfs, parent, name))
getattr(ino) == Serve([op |-> "getattr", ino |-> ino], GetattrReply(pfs, ino))
readlink(ino) == Serve([op |-> "readlink", ino |-> ino], ReadlinkReply(pfs, ino))
release(ino) == Serve([op |-> "release", ino |-> ino], ReplyOk)
releasedir(ino) == Serve([op |-> "releasedir", ino |-> ino], ReplyOk)
readdir(ino, offset, cap) ==
    Serve([op |-> "readdir", ino |-> ino, offset |-> offset, cap |-> cap],
          ReaddirReply(pfs, ino, offset, cap))
statfs(ino) ==
    Serve([op |-> "statfs", ino |-> ino],
          [kind |-> "statfs", blocks |-> 0, bfree |-> 0, bavail |-> 0, files |-> 0,
           ffree |-> 0, bsize |-> 0, namelen |-> 256, frsize |-> 0])
getxattr(ino, name, size) ==
    Serve([op |-> "getxattr", ino |-> ino, name |-> name, size |-> size],
          XattrReply(Fuse_getxattr(pfs, ino, name), size))
access(ino) == Serve([op |-> "access", ino |-> ino], ReplyOk)
bmap(ino) == Serve([op |-> "bmap", ino |-> ino], ReplyError("ENOLCK"))

InitFuse ==
    /\ pfs = FuseImage
    /\ sender \in {"None", "Some"}
    /\ init_notify \in {"None", "UnnamedPipe"}
    /\ pipe = <<>>
    /\ call = NoCall
    /\ reply = ReplyNone
    /\ reader = IdleReader
    /\ sink = <<>>
    /\ listing = IdleListing
    /\ notifier = IdleNotifier
    /\ fifo = NoFifo
    /\ channel = OpenChannel
    /\ torn = "alive"

NextFuse ==
    \/ init
    \/ destroy
    \/ \E ino \in Inos : forget(ino)
    \/ \E ino \in Inos : setattr(ino)
    \/ \E parent \in Inos, name \in EntryNames : mknod(parent, name)
    \/ \E parent \in Inos, name \in EntryNames : mkdir(parent, name)
    \/ \E parent \in Inos, name \in EntryNames : unlink(parent, name)
    \/ \E parent \in Inos, name \in EntryNames : rmdir(parent, name)
    \/ \E parent \in Inos, name \in EntryNames : symlink(parent, name)
    \/ \E parent \in Inos, name \in EntryNames, newparent \in {1, 9} :
          rename(parent, name, newparent, NameZ)
    \/ \E ino \in Inos, newparent \in {1, 9} : link(ino, newparent, NameZ)
    \/ \E ino \in Inos, data \in {<<>>, <<9>>} : write(ino, 0, data)
    \/ \E ino \in Inos : flush(ino)
    \/ \E ino \in Inos : fsync(ino)
    \/ \E ino \in Inos : fsyncdir(ino)
    \/ \E ino \in Inos, name \in XattrNames : setxattr(ino, name, <<9>>)
    \/ \E ino \in Inos, name \in XattrNames : removexattr(ino, name)
    \/ \E parent \in Inos, name \in EntryNames : create(parent, name)
    \/ \E ino \in Inos : getlk(ino)
    \/ \E ino \in Inos : setlk(ino)
    \/ \E parent \in AllInos, name \in {NameA, NameAB, NameZ} : lookup(parent, name)
    \/ \E ino \in AllInos : getattr(ino)
    \/ \E ino \in AllInos : readlink(ino)
    \/ \E ino \in Inos, flags \in {O_RDONLY, O_NOATIME, O_WRONLY, O_CREAT} : open(ino, flags)
    \/ \E ino \in Inos, offset \in {0, 1, 3}, size \in {0, 2} : read(ino, offset, size)
    \/ \E ino \in Inos : release(ino)
    \/ \E ino \in Inos, flags \in {O_RDONLY, O_DIRECTORY, O_RDWR} : opendir(ino, flags)
    \/ \E ino \in {1, 3, 9}, offset \in {0, 1, 3}, cap \in {3, 5} : readdir(ino, offset, cap)
    \/ \E ino \in Inos : releasedir(ino)
    \/ \E ino \in Inos : statfs(ino)
    \/ \E ino \in {3, 9}, name \in XattrNames, size \in {0, 1, 2} : getxattr(ino, name, size)
    \/ \E ino \in AllInos, size \in {0, 4, 5} : listxattr(ino, size)
    \/ \E ino \in Inos : access(ino)
    \/ \E ino \in Inos : bmap(ino)

SpecFuse == InitFuse /\ [][NextFuse]_vars

MutatingOps ==
    {"setattr", "mknod", "mkdir", "unlink", "rmdir", "symlink", "rename", "link", "write",
     "fsync", "fsyncdir", "setxattr", "removexattr", "create", "getlk", "setlk"}

\* the replies of the read-path callbacks to a fixed set of requests
ReadPathReplies(p) ==
    [lookup |-> [x \in {1, 2, 9} \X {NameA, NameZ} |-> LookupReply(p, x[1], x[2])],
     getattr |-> [ino \in AllInos |-> GetattrReply(p, ino)],
     read |-> [x \in Inos \X {0, 1} |-> ReadReply(p, x[1], x[2], 4)],
     readdir |-> [x \in {1, 2, 3} \X {0, 1} |-> ReaddirReply(p, x[1], x[2], 5)],
     readlink |-> [ino \in {3, 4, 9} |-> ReadlinkReply(p, ino)],
     getxattr |-> [x \in {3, 9} \X XattrNames |-> XattrReply(Fuse_getxattr(p, x[1], x[2]), 2)],
     listxattr |-> [x \in {3, 9} \X {0, 5} |-> XattrReply(Fuse_listxattr(p, x[1]), x[2])]]

C4_MutatingReplies ==
    /\ call.op \in MutatingOps => reply = ReplyError("EROFS")
    /\ call.op = "flush" => reply = ReplyError("ENOSYS")

C4_MutatingChangesNothing ==
    call'.op \in MutatingOps \cup {"flush"} =>
        /\ UNCHANGED <<pfs, sender, init_notify, pipe, notifier, fifo, channel, torn>>
        /\ ReadPathReplies(pfs') = ReadPathReplies(pfs)

\* C4: every mutating callback replies EROFS and flush replies ENOSYS, whatever
\* the arguments, and none of them changes the adapter or the image: the
\* read-path callbacks reply afterwards as they did before.
C4_ReadOnly == []C4_MutatingReplies /\ [][C4_MutatingChangesNothing]_vars

\* a rename between inode numbers that do not exist, refused, after init wrote
\* the ready byte
C4_Witness ==
    /\ call.op = "rename"
    /\ call.parent = 9
    /\ call.newparent = 9
    /\ reply = ReplyError("EROFS")
    /\ pipe = <<"s">>
    /\ ReadPathReplies(pfs).lookup[<<1, NameA>>].kind = "entry"

(***************************************************************************)
(* SpecLifecycle: an adapter from construction to its drop, with the ready *)
(* notifier and the shutdown channel it was configured with, the thread    *)
(* init may spawn, and the other ends of the pipe and of the channel.      *)
(***************************************************************************)
\* a reader opens the FIFO
fifo_reader_opens ==
    /\ fifo.kind = "fifo"
    /\ ~fifo.reader
    /\ fifo' = [fifo EXCEPT !.reader = TRUE]
    /\ UNCHANGED <<pfs, sender, init_notify, pipe, call, reply, reader, sink, listing,
                   notifier, channel, torn>>

\* the holder of the receiving end of the shutdown channel lets it go
receiver_dropped ==
    /\ channel.receiver
    /\ channel' = [channel EXCEPT !.receiver = FALSE]
    /\ UNCHANGED <<pfs, sender, init_notify, pipe, call, reply, reader, sink, listing,
                   notifier, fifo, torn>>

FifoKinds == {"missing", "file", "fifo"}

InitLifecycle ==
    /\ pfs = FuseImage
    /\ sender \in {"None", "Some"}
    /\ init_notify \in {"None", "UnnamedPipe", "NamedPipe"}
    /\ pipe = <<>>
    /\ call = NoCall
    /\ reply = ReplyNone
    /\ reader = IdleReader
    /\ sink = <<>>
    /\ listing = IdleListing
    /\ notifier = IdleNotifier
    /\ IF init_notify = "NamedPipe"
       THEN fifo \in {[kind |-> k, reader |-> FALSE] : k \in FifoKinds}
       ELSE fifo = NoFifo
    /\ channel = OpenChannel
    /\ torn = "alive"

NextLifecycle ==
    \/ torn = "alive" /\ init
    \/ torn = "alive" /\ destroy
    \/ torn = "alive" /\ \E ino \in {1, 9} : getattr(ino)
    \/ torn = "alive" /\ \E name \in {NameA, NameZ} : lookup(1, name)
    \/ torn = "alive" /\ \E size \in {0, 2} : read(3, 1, size)
    \/ torn = "alive" /\ unlink(1, NameA)
    \/ notifier_metadata
    \/ notifier_open
    \/ notifier_write
    \/ fifo_reader_opens
    \/ receiver_dropped
    \/ drop

SpecLifecycle == InitLifecycle /\ [][NextLifecycle]_vars

\* At most one ready byte, only after init has taken the notifier; init replies
\* success; while the spawned thread has not got past the open of the FIFO the
\* adapter still serves requests.
C11_ReadyState ==
    /\ Len(pipe) <= 1
    /\ \A k \in 1..Len(pipe) : pipe[k] = "s"
    /\ pipe # <<>> => init_notify = "None"
    /\ notifier.pc # "none" => init_notify = "None"
    /\ call.op = "init" => reply = ReplyOk
    /\ (torn = "alive" /\ notifier.pc \in {"metadata", "open"} /\ ~fifo.reader) =>
           /\ pipe = <<>>
           /\ ENABLED getattr(1)
           /\ ENABLED lookup(1, NameA)

\* The byte is written by the first init (unnamed pipe) or by the thread that
\* init spawned (named pipe) and by nothing else; an init that finds no
\* notifier writes nothing and spawns nothing; every init replies success and
\* leaves no notifier behind; with a named pipe init returns with the thread
\* only started, the FIFO not yet examined.
C11_ReadyStep ==
    /\ pipe' # pipe => (init /\ init_notify = "UnnamedPipe") \/ notifier_write
    /\ (notifier.pc = "none" /\ notifier'.pc # "none") => (init /\ init_notify = "NamedPipe")
    /\ (init /\ init_notify = "None") => UNCHANGED <<pipe, notifier>>
    /\ init => (reply' = ReplyOk /\ init_notify' = "None")
    /\ (init /\ init_notify = "NamedPipe") =>
           (notifier'.pc = "metadata" /\ pipe' = pipe /\ fifo' = fifo)

\* C11: over any sequence of callbacks the ready byte 's' is written at most
\* once and never before init has run; the first init consumes the notifier,
\* later inits write nothing, no other callback writes; init replies success
\* whatever happens to the write, the stat, the FIFO check or the open; with a
\* named pipe init does not wait for a reader and requests are served meanwhile.
C11_ReadyByteOnce == []C11_ReadyState /\ [][C11_ReadyStep]_vars

\* a second init, served after the spawned thread wrote the byte to the FIFO
C11_Witness ==
    /\ call.op = "init"
    /\ reply = ReplyOk
    /\ fifo.kind = "fifo"
    /\ notifier.pc = "done"
    /\ pipe = <<"s">>
    /\ init_notify = "None"

\* C12: an adapter with a shutdown channel sends exactly one unit message when
\* it is torn down (none before, none from destroy), and a send that fails
\* because the receiver is gone does not stop the teardown from completing.
C12_ShutdownBestEffort ==
    /\ torn = "alive" => channel.sent = 0
    /\ sender = "None" => channel.sent = 0
    /\ channel.sent <= 1
    /\ (torn # "alive" /\ sender = "Some" /\ channel.receiver) => channel.sent = 1
    /\ torn # "panicked"

====
